---- MODULE Spec2Model ----
(***************************************************************************)
(* Model of at28c_programmer.py: the host-side command/response driver of  *)
(* a parallel EEPROM programmer.  The script opens a serial transport,     *)
(* dispatches on the mode flags (read / write / clear / verify) and runs   *)
(* one address loop that writes a command line and blocks for a response   *)
(* line.  Text is modelled as sequences of one-character strings, bytes as *)
(* integers 0..255, a Python bytes object as a sequence of such integers.  *)
(***************************************************************************)
EXTENDS Integers, Sequences, FiniteSets, TLC

(***************************************************************************)
(* Bounds of the model.                                                    *)
(***************************************************************************)
MaxLimit == 3
MaxFileLen == 3
MaxOffset == 1

(***************************************************************************)
(* Program constants.                                                      *)
(***************************************************************************)
AddrWidth == 4
ByteWidth == 2
EraseByte == 255
ShowCap == 10

(***************************************************************************)
(* Python string helpers used by the script.                               *)
(***************************************************************************)
HexChars == <<"0", "1", "2", "3", "4", "5", "6", "7",
              "8", "9", "a", "b", "c", "d", "e", "f">>

RECURSIVE HexDigits(_)
HexDigits(n) ==
    IF n < 16 THEN <<HexChars[n + 1]>>
    ELSE HexDigits(n \div 16) \o <<HexChars[(n % 16) + 1]>>

\* hex(n) for n >= 0: the "0x" prefix and the lower-case digits
hex(n) == <<"0", "x">> \o HexDigits(n)

\* s[2:]
From2(s) == SubSeq(s, 3, Len(s))

\* s.zfill(w): left-pad with "0" up to w characters, never truncate
RECURSIVE zfill(_, _)
zfill(s, w) == IF Len(s) >= w THEN s ELSE zfill(<<"0">> \o s, w)

UpperChar(c) ==
    CASE c = "a" -> "A" [] c = "b" -> "B" [] c = "c" -> "C"
      [] c = "d" -> "D" [] c = "e" -> "E" [] c = "f" -> "F"
      [] c = "x" -> "X" [] OTHER -> c

\* s.upper()
upper(s) == [i \in 1..Len(s) |-> UpperChar(s[i])]

Whitespace == {" ", "\t", "\n", "\r"}

\* s.strip(): drop leading and trailing whitespace
RECURSIVE lstrip(_)
lstrip(s) ==
    IF s # <<>> /\ Head(s) \in Whitespace THEN lstrip(Tail(s)) ELSE s

RECURSIVE rstrip(_)
rstrip(s) ==
    IF s # <<>> /\ s[Len(s)] \in Whitespace
    THEN rstrip(SubSeq(s, 1, Len(s) - 1)) ELSE s

strip(s) == rstrip(lstrip(s))

\* value of one hexadecimal digit (either case), -1 for any other character
HexVal(c) ==
    CASE c = "0" -> 0 [] c = "1" -> 1 [] c = "2" -> 2 [] c = "3" -> 3
      [] c = "4" -> 4 [] c = "5" -> 5 [] c = "6" -> 6 [] c = "7" -> 7
      [] c = "8" -> 8 [] c = "9" -> 9
      [] c \in {"a", "A"} -> 10 [] c \in {"b", "B"} -> 11
      [] c \in {"c", "C"} -> 12 [] c \in {"d", "D"} -> 13
      [] c \in {"e", "E"} -> 14 [] c \in {"f", "F"} -> 15
      [] OTHER -> -1

\* bytes.fromhex(s) raises ValueError unless s is whole pairs of hex digits
\* (the response texts of this model hold no interior whitespace)
FromHexOk(s) ==
    /\ Len(s) % 2 = 0
    /\ \A i \in 1..Len(s) : HexVal(s[i]) >= 0

\* bytes.fromhex(s): one byte per pair of digits; the empty text gives b''
fromhex(s) ==
    [k \in 1..(Len(s) \div 2) |-> 16 * HexVal(s[2 * k - 1]) + HexVal(s[2 * k])]

\* b.hex() of a bytes object: two lower-case digits per byte
RECURSIVE BytesHex(_)
BytesHex(b) ==
    IF b = <<>> THEN <<>>
    ELSE <<HexChars[(Head(b) \div 16) + 1], HexChars[(Head(b) % 16) + 1]>>
         \o BytesHex(Tail(b))

(***************************************************************************)
(* Command encoding, lines 43, 65-67, 96-98 and 133.                       *)
(***************************************************************************)
\* hex(addr)[2:].zfill(4).upper()
AddrText(a) == upper(zfill(From2(hex(a)), AddrWidth))

\* hex(b)[2:].zfill(2).upper()
ByteText(b) == upper(zfill(From2(hex(b)), ByteWidth))

ReadCommand(a) == <<"R", "D">> \o AddrText(a) \o <<"\n">>

WriteCommand(a, b) == <<"W", "R">> \o AddrText(a) \o ByteText(b) \o <<"\n">>

DONE == <<"D", "O", "N", "E">>

(***************************************************************************)
(* Inputs: the parsed command line, the input file and the device.         *)
(* args.limit is None or the one-element list [val] (nargs=1, line 17);    *)
(* args.offset is the int 0 by default or the one-element list [val] when  *)
(* -o is supplied (nargs=1 with default=0, line 18); args.file is None or  *)
(* names a file whose bytes are data.                                      *)
(***************************************************************************)
FileBytes == {10, 255}

Files == UNION {[1..n -> FileBytes] : n \in 0..MaxFileLen}

\* a file one byte longer than the display cap, for the verify report
LongFile == [i \in 1..(ShowCap + 1) |-> 255]

\* the smallest iteration count whose last address needs a fifth hex digit
BigLimit == 16 * 16 * 16 * 16 + 1

None == [given |-> FALSE, val |-> 0]

Limits == {None} \cup {[given |-> TRUE, val |-> l] : l \in 0..MaxLimit}

Offsets == {None} \cup {[given |-> TRUE, val |-> o] : o \in 0..MaxOffset}

NoFile == [given |-> FALSE, data |-> <<>>]

FileArgs == {NoFile} \cup {[given |-> TRUE, data |-> d] : d \in Files}

SmallArgs ==
    [read : BOOLEAN, write : BOOLEAN, clear : BOOLEAN, verify : BOOLEAN,
     limit : Limits, offset : Offsets, file : FileArgs]

LongVerifyArgs ==
    [read |-> FALSE, write |-> FALSE, clear |-> FALSE, verify |-> TRUE,
     limit |-> None, offset |-> None,
     file |-> [given |-> TRUE, data |-> LongFile]]

LongClearArgs ==
    [read |-> FALSE, write |-> FALSE, clear |-> TRUE, verify |-> FALSE,
     limit |-> [given |-> TRUE, val |-> BigLimit], offset |-> None,
     file |-> NoFile]

\* raw response lines the device may send, terminator included
Line(s) == s \o <<"\r", "\n">>

Lines == {Line(DONE), Line(<<"E", "R", "R">>), Line(<<"F", "F">>),
          <<"0", "A", "\n">>, Line(<<"A">>), Line(<<>>)}

VARIABLES
    args,             \* parsed command line (line 22)
    pc,               \* position of the script
    is_open,          \* ser.is_open
    closes,           \* number of ser.close() calls made
    addr,             \* addr (line 37); a list iff args.offset.given
    x,                \* index of the running loop iteration
    sent,             \* number of ser.write() calls made
    received,         \* number of ser.readline() calls returned
    command,          \* last command line written
    response,         \* last response, decoded and stripped
    contents,         \* bytes of the file read by the write branch
    emitted,          \* last "addr : byte" line printed by read
    emits,            \* number of such lines
    progress,         \* last "n / total" line printed by write or clear
    progresses,       \* number of such lines
    limit,            \* verify's local limit (line 123)
    start_addr,       \* verify's start_addr (line 117)
    file_contents,    \* verify's expected window (lines 126-128)
    eeprom_contents,  \* verify's snapshot (line 130)
    errors,           \* verify's full error list (lines 146-149)
    total,            \* the error count verify prints (line 153)
    notice,           \* "Showing first 10 errors" printed (line 156)
    shown,            \* the error lines verify prints (lines 158-160)
    verdict,          \* "", "passed" or "failed"
    driver,           \* the branch of the if/elif chain that was entered
    exc,              \* the uncaught exception, "" when none
    exitCode          \* process exit status, -1 while running

ctl == <<pc, exc, exitCode>>
port == <<is_open, closes>>
wire == <<sent, received, command, response>>
loopv == <<addr, x>>
obs == <<emitted, emits, progress, progresses>>
ver == <<limit, start_addr, file_contents, eeprom_contents, errors, total,
         notice, shown, verdict>>
vars == <<args, ctl, port, wire, loopv, obs, ver, contents, driver>>

Running == {"open", "dispatch", "read_loop", "read_wait", "write_loop",
            "write_wait", "clear_loop", "clear_wait", "verify_loop",
            "verify_wait", "close"}

Terminal == {"done", "exit1", "crashed"}

InitWith(a) ==
    /\ args = a
    /\ pc = "open"
    /\ is_open = FALSE
    /\ closes = 0
    /\ addr = 0
    /\ x = 0
    /\ sent = 0
    /\ received = 0
    /\ command = <<>>
    /\ response = <<>>
    /\ contents = <<>>
    /\ emitted = <<>>
    /\ emits = 0
    /\ progress = <<>>
    /\ progresses = 0
    /\ limit = 0
    /\ start_addr = 0
    /\ file_contents = <<>>
    /\ eeprom_contents = <<>>
    /\ errors = <<>>
    /\ total = 0
    /\ notice = FALSE
    /\ shown = <<>>
    /\ verdict = ""
    /\ driver = "none"
    /\ exc = ""
    /\ exitCode = -1

Init == \E a \in SmallArgs \cup {LongVerifyArgs} : InitWith(a)

InitLong == \E a \in SmallArgs \cup {LongVerifyArgs, LongClearArgs} : InitWith(a)

\* the lines the device answers with; the long runs draw from fewer
Device ==
    IF args.limit.given /\ args.limit.val > MaxLimit
    THEN {Line(DONE), Line(<<"E", "R", "R">>)}
    ELSE IF Len(args.file.data) > MaxFileLen
    THEN {Line(<<"F", "F">>), <<"0", "A", "\n">>}
    ELSE Lines

\* an uncaught exception ends the process with status 1; nothing is closed
Raise(e) ==
    /\ pc' = "crashed"
    /\ exc' = e
    /\ exitCode' = 1

\* exit(1) that ends the process with status 0
Exit1_Status0 ==
    /\ pc' = "exit1"
    /\ exitCode' = 0
    /\ exc' = exc

\* exit(1)
Exit1 ==
    /\ pc' = "exit1"
    /\ exitCode' = 1
    /\ exc' = exc

Goto(p) ==
    /\ pc' = p
    /\ UNCHANGED <<exc, exitCode>>

\* ser.close()
SerClose ==
    /\ is_open' = FALSE
    /\ closes' = closes + 1

(***************************************************************************)
(* Lines 25-37: open the port, give up when it is not open, set addr.      *)
(* serial.Serial() may raise, or hand back a port that is not open.        *)
(***************************************************************************)
Open ==
    /\ pc = "open"
    /\ \E outcome \in {"open", "closed", "raise"} :
         CASE outcome = "raise" ->
                /\ Raise("SerialException")
                /\ UNCHANGED <<is_open, addr>>
           [] outcome = "closed" ->
                /\ Exit1
                /\ UNCHANGED <<is_open, addr>>
           [] OTHER ->
                /\ is_open' = TRUE
                /\ addr' = args.offset.val
                /\ Goto("dispatch")
    /\ UNCHANGED <<args, closes, x, wire, obs, ver, contents, driver>>

(***************************************************************************)
(* Read branch, lines 39-50.                                               *)
(***************************************************************************)
\* lines 39-42: range(args.limit[0]) raises TypeError when limit is None
ReadStart ==
    /\ pc = "dispatch"
    /\ args.read
    /\ driver' = "read"
    /\ IF args.limit.given THEN Goto("read_loop") ELSE Raise("TypeError")
    /\ UNCHANGED <<args, port, wire, loopv, obs, ver, contents>>

\* lines 42-45: hex(addr) raises TypeError when addr is a list
ReadSend ==
    /\ pc = "read_loop"
    /\ x < args.limit.val
    /\ IF args.offset.given
       THEN /\ Raise("TypeError")
            /\ UNCHANGED wire
       ELSE /\ command' = ReadCommand(addr)
            /\ sent' = sent + 1
            /\ Goto("read_wait")
            /\ UNCHANGED <<received, response>>
    /\ UNCHANGED <<args, port, loopv, obs, ver, contents, driver>>

\* lines 48-50: the response is printed as it came, zero-filled, never parsed
ReadRecv ==
    /\ pc = "read_wait"
    /\ \E line \in Device :
         /\ response' = strip(line)
         /\ emitted' = <<AddrText(addr), zfill(strip(line), ByteWidth)>>
    /\ received' = received + 1
    /\ emits' = emits + 1
    /\ addr' = addr + 1
    /\ x' = x + 1
    /\ Goto("read_loop")
    /\ UNCHANGED <<args, port, sent, command, progress, progresses, ver,
                   contents, driver>>

(***************************************************************************)
(* Write branch, lines 52-85.                                              *)
(***************************************************************************)
\* WriteStart tested with a plain if, not as the elif of the read test
WriteStart_If ==
    /\ pc = "dispatch"
    /\ args.write
    /\ driver' = "write"
    /\ IF ~args.file.given
       THEN /\ Raise("TypeError")
            /\ UNCHANGED contents
       ELSE /\ contents' = args.file.data
            /\ IF args.limit.given THEN Goto("write_loop") ELSE Raise("TypeError")
    /\ UNCHANGED <<args, port, wire, loopv, obs, ver>>

\* lines 52-61: args.file[0] and args.limit[0] raise TypeError on None
WriteStart ==
    /\ pc = "dispatch"
    /\ ~args.read /\ args.write
    /\ driver' = "write"
    /\ IF ~args.file.given
       THEN /\ Raise("TypeError")
            /\ UNCHANGED contents
       ELSE /\ contents' = args.file.data
            /\ IF args.limit.given THEN Goto("write_loop") ELSE Raise("TypeError")
    /\ UNCHANGED <<args, port, wire, loopv, obs, ver>>

\* WriteSend that goes on to the next byte without waiting for the response
WriteSend_NoWait ==
    /\ pc = "write_loop"
    /\ x < Len(contents)
    /\ IF args.offset.given
       THEN /\ Raise("TypeError")
            /\ UNCHANGED <<wire, addr, x>>
       ELSE /\ command' = WriteCommand(addr, contents[x + 1])
            /\ sent' = sent + 1
            /\ addr' = addr + 1
            /\ x' = x + 1
            /\ Goto(IF x + 1 < Len(contents) THEN "write_loop" ELSE "write_wait")
            /\ UNCHANGED <<received, response>>
    /\ UNCHANGED <<args, port, obs, ver, contents, driver>>

\* lines 64-70
WriteSend ==
    /\ pc = "write_loop"
    /\ x < Len(contents)
    /\ IF args.offset.given
       THEN /\ Raise("TypeError")
            /\ UNCHANGED <<wire, addr>>
       ELSE /\ command' = WriteCommand(addr, contents[x + 1])
            /\ sent' = sent + 1
            /\ addr' = addr + 1
            /\ Goto("write_wait")
            /\ UNCHANGED <<received, response>>
    /\ UNCHANGED <<args, port, x, obs, ver, contents, driver>>

\* Failed that takes an empty response line for a success
Failed_EmptyOk(r) == r # DONE /\ r # <<>>

\* lines 75 and 106: response != "DONE"
Failed(r) == r # DONE

\* line 84: args.limit[0] is not None and addr >= args.limit[0] + args.offset
\* (here args.limit is a list and args.offset the int 0)
WriteBreak(a) == a >= args.limit.val + args.offset.val

\* WriteRecv that reports progress against the limit, as clear does
WriteRecv_LimitTotal ==
    /\ pc = "write_wait"
    /\ received' = received + 1
    /\ \E line \in Device :
         /\ response' = strip(line)
         /\ IF Failed(strip(line))
            THEN /\ SerClose
                 /\ Exit1
                 /\ UNCHANGED <<x, progress, progresses>>
            ELSE /\ progress' = <<addr - args.offset.val, args.limit.val>>
                 /\ progresses' = progresses + 1
                 /\ UNCHANGED port
                 /\ IF WriteBreak(addr)
                    THEN /\ Goto("close")
                         /\ x' = x
                    ELSE /\ Goto("write_loop")
                         /\ x' = x + 1
    /\ UNCHANGED <<args, sent, command, addr, emitted, emits, ver, contents,
                   driver>>

\* lines 73-85
WriteRecv ==
    /\ pc = "write_wait"
    /\ received' = received + 1
    /\ \E line \in Device :
         /\ response' = strip(line)
         /\ IF Failed(strip(line))
            THEN /\ SerClose
                 /\ Exit1
                 /\ UNCHANGED <<x, progress, progresses>>
            ELSE /\ progress' = <<addr - args.offset.val, Len(contents)>>
                 /\ progresses' = progresses + 1
                 /\ UNCHANGED port
                 /\ IF WriteBreak(addr)
                    THEN /\ Goto("close")
                         /\ x' = x
                    ELSE /\ Goto("write_loop")
                         /\ x' = x + 1
    /\ UNCHANGED <<args, sent, command, addr, emitted, emits, ver, contents,
                   driver>>

(***************************************************************************)
(* Clear branch, lines 87-112.                                             *)
(***************************************************************************)
\* ClearStart without the check of lines 89-92: range(args.limit[0]) raises
ClearStart_NoCheck ==
    /\ pc = "dispatch"
    /\ ~args.read /\ ~args.write /\ args.clear
    /\ driver' = "clear"
    /\ IF ~args.limit.given THEN Raise("TypeError") ELSE Goto("clear_loop")
    /\ UNCHANGED <<args, port, wire, loopv, obs, ver, contents>>

\* lines 87-94: without a limit, close the port and exit(1)
ClearStart ==
    /\ pc = "dispatch"
    /\ ~args.read /\ ~args.write /\ args.clear
    /\ driver' = "clear"
    /\ IF ~args.limit.given
       THEN /\ SerClose
            /\ Exit1
       ELSE /\ Goto("clear_loop")
            /\ UNCHANGED port
    /\ UNCHANGED <<args, wire, loopv, obs, ver, contents>>

\* ClearSend that advances addr before it builds the command
ClearSend_IncFirst ==
    /\ pc = "clear_loop"
    /\ x < args.limit.val
    /\ IF args.offset.given
       THEN /\ Raise("TypeError")
            /\ UNCHANGED <<wire, addr>>
       ELSE /\ command' = WriteCommand(addr + 1, EraseByte)
            /\ sent' = sent + 1
            /\ addr' = addr + 1
            /\ Goto("clear_wait")
            /\ UNCHANGED <<received, response>>
    /\ UNCHANGED <<args, port, x, obs, ver, contents, driver>>

\* lines 95-101
ClearSend ==
    /\ pc = "clear_loop"
    /\ x < args.limit.val
    /\ IF args.offset.given
       THEN /\ Raise("TypeError")
            /\ UNCHANGED <<wire, addr>>
       ELSE /\ command' = WriteCommand(addr, EraseByte)
            /\ sent' = sent + 1
            /\ addr' = addr + 1
            /\ Goto("clear_wait")
            /\ UNCHANGED <<received, response>>
    /\ UNCHANGED <<args, port, x, obs, ver, contents, driver>>

\* ClearRecv that closes the port on an error but goes on with the loop
ClearRecv_NoExit ==
    /\ pc = "clear_wait"
    /\ received' = received + 1
    /\ \E line \in Device :
         /\ response' = strip(line)
         /\ IF Failed(strip(line))
            THEN /\ SerClose
                 /\ UNCHANGED <<progress, progresses>>
            ELSE /\ progress' = <<addr - args.offset.val, args.limit.val>>
                 /\ progresses' = progresses + 1
                 /\ UNCHANGED port
    /\ x' = x + 1
    /\ Goto("clear_loop")
    /\ UNCHANGED <<args, sent, command, addr, emitted, emits, ver, contents,
                   driver>>

\* lines 104-112
ClearRecv ==
    /\ pc = "clear_wait"
    /\ received' = received + 1
    /\ \E line \in Device :
         /\ response' = strip(line)
         /\ IF Failed(strip(line))
            THEN /\ SerClose
                 /\ Exit1
                 /\ UNCHANGED <<x, progress, progresses>>
            ELSE /\ progress' = <<addr - args.offset.val, args.limit.val>>
                 /\ progresses' = progresses + 1
                 /\ x' = x + 1
                 /\ Goto("clear_loop")
                 /\ UNCHANGED port
    /\ UNCHANGED <<args, sent, command, addr, emitted, emits, ver, contents,
                   driver>>

(***************************************************************************)
(* Verify branch, lines 114-162.                                           *)
(***************************************************************************)
Min(a, b) == IF a <= b THEN a ELSE b

\* s[lo : hi] for integers 0 <= lo
Slice(s, lo, hi) == SubSeq(s, lo + 1, Min(hi, Len(s)))

\* lines 114-130.  args.file[0] raises TypeError on None.  limit is the list
\* args.limit when -l is given, and addr the list args.offset when -o is
\* given: limit + addr of a list and an int, and a slice bound that is a
\* list, raise TypeError (line 126).
VerifyStart ==
    /\ pc = "dispatch"
    /\ ~args.read /\ ~args.write /\ ~args.clear /\ args.verify
    /\ driver' = "verify"
    /\ IF ~args.file.given \/ args.limit.given \/ args.offset.given
       THEN /\ Raise("TypeError")
            /\ UNCHANGED <<limit, start_addr, file_contents, eeprom_contents>>
       ELSE /\ start_addr' = args.offset.val
            /\ limit' = Len(args.file.data)
            /\ file_contents' =
                 LET cut == Slice(args.file.data, addr, Len(args.file.data) + addr)
                 IN  [i \in 1..Len(cut) |-> <<cut[i]>>]
            /\ eeprom_contents' = <<>>
            /\ Goto("verify_loop")
    /\ UNCHANGED <<args, port, wire, loopv, obs, errors, total, notice, shown,
                   verdict, contents>>

\* VerifySend that builds the clear loop's write command
VerifySend_Write ==
    /\ pc = "verify_loop"
    /\ x < limit
    /\ command' = WriteCommand(addr, EraseByte)
    /\ sent' = sent + 1
    /\ Goto("verify_wait")
    /\ UNCHANGED <<args, port, received, response, loopv, obs, ver, contents,
                   driver>>

\* lines 132-135
VerifySend ==
    /\ pc = "verify_loop"
    /\ x < limit
    /\ command' = ReadCommand(addr)
    /\ sent' = sent + 1
    /\ Goto("verify_wait")
    /\ UNCHANGED <<args, port, received, response, loopv, obs, ver, contents,
                   driver>>

\* lines 138-143: bytes.fromhex raises ValueError on an odd or non-hex text
VerifyRecv ==
    /\ pc = "verify_wait"
    /\ received' = received + 1
    /\ \E line \in Device :
         /\ response' = strip(line)
         /\ IF FromHexOk(strip(line))
            THEN /\ eeprom_contents' = Append(eeprom_contents, fromhex(strip(line)))
                 /\ addr' = addr + 1
                 /\ x' = x + 1
                 /\ Goto("verify_loop")
            ELSE /\ Raise("ValueError")
                 /\ UNCHANGED <<eeprom_contents, addr, x>>
    /\ UNCHANGED <<args, port, sent, command, obs, limit, start_addr,
                   file_contents, errors, total, notice, shown, verdict,
                   contents, driver>>

\* ErrorLine with the device byte and the expected byte exchanged
ErrorLine_Swapped(start, i, dev, exp) ==
    [addr |-> start + i, device |-> BytesHex(exp), expected |-> BytesHex(dev)]

\* line 149: one error line; the address is printed in decimal
ErrorLine(start, i, dev, exp) ==
    [addr |-> start + i, device |-> BytesHex(dev), expected |-> BytesHex(exp)]

\* lines 146-149: for i in range(len(eeprom_contents)), from index i on
RECURSIVE Collect(_, _, _, _)
Collect(eeprom, file, start, i) ==
    IF i >= Len(eeprom) THEN <<>>
    ELSE (IF eeprom[i + 1] # file[i + 1]
          THEN <<ErrorLine(start, i, eeprom[i + 1], file[i + 1])>>
          ELSE <<>>) \o Collect(eeprom, file, start, i + 1)

\* line 158: errors[:10]
FirstErrors(errs) == Slice(errs, 0, ShowCap)

\* ErrorCount taken after the list has been cut to its first 10
ErrorCount_AfterCut(errs) == Len(FirstErrors(errs))

\* line 153: str(len(errors)), taken before the list is cut
ErrorCount(errs) == Len(errs)

\* lines 145-162; file_contents[i] raises IndexError past the window's end
VerifyCompare ==
    /\ pc = "verify_loop"
    /\ x >= limit
    /\ IF Len(eeprom_contents) > Len(file_contents)
       THEN /\ Raise("IndexError")
            /\ UNCHANGED <<errors, total, notice, shown, verdict>>
       ELSE LET errs == Collect(eeprom_contents, file_contents, start_addr, 0)
            IN  /\ errors' = errs
                /\ IF errs # <<>>
                   THEN /\ total' = ErrorCount(errs)
                        /\ notice' = (Len(errs) > ShowCap)
                        /\ shown' = FirstErrors(errs)
                        /\ verdict' = "failed"
                   ELSE /\ verdict' = "passed"
                        /\ UNCHANGED <<total, notice, shown>>
                /\ Goto("close")
    /\ UNCHANGED <<args, port, wire, loopv, obs, limit, start_addr,
                   file_contents, eeprom_contents, contents, driver>>

(***************************************************************************)
(* Lines 164-165: reached when no branch is taken, when a loop runs out,   *)
(* after the write loop's break and after verify's report.                 *)
(***************************************************************************)
AtClose ==
    \/ pc = "close"
    \/ pc = "dispatch" /\ ~args.read /\ ~args.write /\ ~args.clear /\ ~args.verify
    \/ pc = "read_loop" /\ x >= args.limit.val
    \/ pc = "write_loop" /\ x >= Len(contents)
    \/ pc = "clear_loop" /\ x >= args.limit.val

Close ==
    /\ AtClose
    /\ SerClose
    /\ pc' = "done"
    /\ exitCode' = 0
    /\ UNCHANGED <<args, exc, wire, loopv, obs, ver, contents, driver>>

Next ==
    \/ Open
    \/ ReadStart \/ ReadSend \/ ReadRecv
    \/ WriteStart \/ WriteSend \/ WriteRecv
    \/ ClearStart \/ ClearSend \/ ClearRecv
    \/ VerifyStart \/ VerifySend \/ VerifyRecv \/ VerifyCompare
    \/ Close

Spec == Init /\ [][Next]_vars

\* the same program, with the run of BigLimit clear iterations added
SpecLong == InitLong /\ [][Next]_vars

(***************************************************************************)
(* Properties.                                                             *)
(***************************************************************************)
OffsetOf == args.offset.val

\* C1: in every driver at most one command is outstanding: a command is
\* written only when every earlier command's response line has been read,
\* and exactly one line is read per command.
C1_OneOutstanding ==
    /\ received <= sent
    /\ sent <= received + 1
    /\ (sent = received + 1) <=>
         (pc \in {"read_wait", "write_wait", "clear_wait", "verify_wait"})

C1_Witness == sent = 3 /\ received = 2

\* C2: write driver without a limit: with only DONE responses the run ends
\* with exactly N commands sent and N responses read, the i-th command
\* carrying address offset+i and data byte buffer[i].
C2_WriteAllNoLimit ==
    (driver = "write" /\ args.file.given /\ ~args.limit.given
       /\ (received = 0 \/ response = DONE))
    => /\ pc \in Terminal =>
            (sent = Len(args.file.data) /\ received = Len(args.file.data))
       /\ sent > 0 =>
            command = WriteCommand(OffsetOf + sent - 1, args.file.data[sent])

\* C3: write and clear drivers: when the k-th response is the first one that
\* is not exactly DONE, exactly k commands have been sent, the transport is
\* closed, the run has ended, and nothing is sent from then on.
C3_HaltOnFirstError ==
    /\ [](   (driver \in {"write", "clear"} /\ received > 0 /\ response # DONE)
          => (sent = received /\ ~is_open /\ closes = 1 /\ pc = "exit1"))
    /\ [][pc = "exit1" => (sent' = sent /\ received' = received)]_vars

C3_Witness ==
    driver = "write" /\ received = 2 /\ response # DONE /\ pc = "exit1"

\* C4: once the transport has been opened, every termination leaves it
\* closed, and close has been performed exactly once.
C4_ClosedOnEveryExit ==
    (pc \in Terminal /\ (is_open \/ closes > 0)) => (~is_open /\ closes = 1)

\* C5: clear without a limit fails before any command is written, with the
\* transport closed before the process ends with a non-zero status.
C5_ClearNeedsLimit ==
    (args.clear /\ ~args.read /\ ~args.write /\ ~args.limit.given)
    => /\ sent = 0
       /\ pc \notin {"clear_loop", "clear_wait", "close", "done"}
       /\ (pc \in Terminal /\ driver = "clear")
            => (~is_open /\ closes = 1 /\ exitCode = 1 /\ exc = "")

C5_Witness == driver = "clear" /\ ~args.limit.given /\ pc = "exit1"

\* indices (from 0) at which the snapshot and the expected window differ
MismatchIdx ==
    {i \in 0..(Len(eeprom_contents) - 1) :
        eeprom_contents[i + 1] # file_contents[i + 1]}

\* C6: verify reports exactly the indices i where snapshot and window
\* differ, each with address offset+i, the device byte and the expected
\* byte, in ascending order, and the total is the number of such indices.
C6_ExactMismatches ==
    verdict # "" =>
      /\ Len(errors) = Cardinality(MismatchIdx)
      /\ \A i \in MismatchIdx : \E j \in 1..Len(errors) :
            /\ errors[j].addr = OffsetOf + i
            /\ fromhex(errors[j].device) = eeprom_contents[i + 1]
            /\ fromhex(errors[j].expected) = file_contents[i + 1]
      /\ \A j \in 1..Len(errors) : errors[j].addr - OffsetOf \in MismatchIdx
      /\ \A j \in 1..(Len(errors) - 1) : errors[j].addr < errors[j + 1].addr
      /\ (verdict = "passed") <=> (MismatchIdx = {})
      /\ verdict = "failed" => total = Cardinality(MismatchIdx)

C6_Witness ==
    /\ verdict = "failed"
    /\ Len(eeprom_contents) = 3
    /\ total = 1
    /\ errors = <<[addr |-> 1, device |-> <<"f", "f">>,
                   expected |-> <<"0", "a">>]>>

\* C7: with more than 10 mismatches verify shows exactly the first 10, in
\* ascending address order, and still reports the true total; with 10 or
\* fewer it shows them all.
C7_CappedReport ==
    verdict = "failed" =>
      /\ total = Cardinality(MismatchIdx)
      /\ Len(shown) = Min(ShowCap, Cardinality(MismatchIdx))
      /\ \A j \in 1..Len(shown) :
            /\ shown[j] = errors[j]
            /\ Cardinality({i \in MismatchIdx : OffsetOf + i < shown[j].addr}) = j - 1
      /\ notice <=> (Cardinality(MismatchIdx) > ShowCap)

C7_Witness ==
    /\ verdict = "failed"
    /\ total = ShowCap + 1
    /\ Len(shown) = ShowCap
    /\ notice

\* C8: read driver: for every supplied offset and limit the run issues
\* exactly limit read commands, the i-th for address offset+i, and emits
\* the pair (offset+i, response) after each response.
C8_ReadWindow ==
    (driver = "read" /\ args.limit.given)
    => /\ pc \in Terminal => (sent = args.limit.val /\ emits = args.limit.val)
       /\ sent > 0 => command = ReadCommand(OffsetOf + sent - 1)
       /\ emits > 0 => emitted[1] = AddrText(OffsetOf + emits - 1)

\* C9: write driver with limit L: with only DONE responses exactly
\* min(L, N) commands are sent (none when L = 0) and the run succeeds.
C9_WriteLimit ==
    (driver = "write" /\ args.limit.given /\ pc = "done")
    => sent = Min(args.limit.val, Len(args.file.data))

\* C10: every command line written carries its address as exactly 4 hex
\* digits: no command is sent with a longer address.
C10_FourDigitAddress ==
    sent > 0 =>
      Len(command) = (IF Head(command) = "R" THEN 2 + AddrWidth + 1
                      ELSE 2 + AddrWidth + ByteWidth + 1)

\* the transport was opened at some point of the run
Opened == is_open \/ closes > 0

\* C11: the exit status is 0 exactly when the selected operation ran to its
\* end; it is non-zero when the transport could not be opened, when read or
\* clear lacks its limit, and when a write or clear response is not DONE; a
\* verify run that completes with mismatches exits 0.
C11_ExitStatus ==
    pc \in Terminal =>
      /\ exitCode \in {0, 1}
      /\ ~Opened => exitCode # 0
      /\ (driver \in {"read", "clear"} /\ ~args.limit.given) => exitCode # 0
      /\ (driver \in {"write", "clear"} /\ received > 0 /\ response # DONE)
            => exitCode # 0
      /\ verdict = "failed" => exitCode = 0
      /\ exitCode = 0 =>
            /\ Opened /\ exc = "" /\ sent = received
            /\ driver = "read" => (args.limit.given /\ emits = args.limit.val)
            /\ driver \in {"write", "clear"} => (received = 0 \/ response = DONE)
            /\ driver = "clear" => (args.limit.given /\ sent = args.limit.val)
            /\ driver = "verify" =>
                 (verdict # "" /\ sent = Len(args.file.data))
      /\ exitCode # 0 => (exc # "" \/ pc = "exit1")

C11_Witness == pc = "done" /\ verdict = "failed" /\ exitCode = 0 /\ total = 2

\* a response text that is a valid 1-2 digit hexadecimal byte
WellFormedByte(r) ==
    /\ Len(r) \in {1, 2}
    /\ \A i \in 1..Len(r) : HexVal(r[i]) >= 0

\* C12: verify, with every read answered by a well-formed byte, runs to
\* completion: it issues all the reads of its window, reports a pass or the
\* mismatches, and closes the transport.
C12_VerifyCompletes ==
    (driver = "verify" /\ pc \in Terminal /\ received > 0
       /\ WellFormedByte(response)
       /\ \A i \in 1..Len(eeprom_contents) : Len(eeprom_contents[i]) = 1)
    => /\ pc = "done"
       /\ verdict \in {"passed", "failed"}
       /\ sent = Len(file_contents)
       /\ ~is_open

\* C13: clear with limit L and only DONE responses sends exactly L write
\* commands, the i-th to address offset+i with data byte 0xFF, and reports
\* progress (i+1) out of L after the i-th DONE.
C13_ClearWindow ==
    (driver = "clear" /\ args.limit.given /\ (received = 0 \/ response = DONE))
    => /\ pc \in Terminal =>
            (sent = args.limit.val /\ progresses = args.limit.val)
       /\ sent > 0 => command = WriteCommand(OffsetOf + sent - 1, EraseByte)
       /\ progresses > 0 => progress = <<progresses, args.limit.val>>

\* the window the file gives for offset o and the optional limit
ExpectedWindow ==
    LET d == args.file.data
        rest == SubSeq(d, OffsetOf + 1, Len(d))
    IN  IF args.limit.given
        THEN SubSeq(rest, 1, Min(args.limit.val, Len(rest)))
        ELSE rest

\* C14: verify's expected window is the file's bytes from the offset on, at
\* most limit of them; as many reads are issued as the window is long, and
\* the snapshot has the window's length when the comparison starts.
C14_VerifyWindow ==
    (driver = "verify" /\ args.file.given /\ pc \in Terminal
       /\ exc # "ValueError")
    => /\ verdict # ""
       /\ file_contents = [i \in 1..Len(ExpectedWindow) |-> <<ExpectedWindow[i]>>]
       /\ sent = Len(ExpectedWindow)
       /\ Len(eeprom_contents) = Len(file_contents)

\* C15: in read and verify a response that is not a valid 1-2 digit hex
\* byte is fatal: the driver stops, nothing more is read, and the text is
\* neither emitted nor stored; a valid 1-digit response is accepted.
C15_MalformedIsFatal ==
    (driver \in {"read", "verify"} /\ received > 0)
    => IF WellFormedByte(response)
       THEN pc # "crashed"
       ELSE /\ pc = "crashed"
            /\ emits < received
            /\ Len(eeprom_contents) < received

\* the address digits of a command line: what follows the two letters, up
\* to the data byte (write) or the newline (read)
AddrPart(c) ==
    SubSeq(c, 3, Len(c) - (IF Head(c) = "R" THEN 1 ELSE 1 + ByteWidth))

\* the number a text of hexadecimal digits denotes
RECURSIVE HexNumber(_)
HexNumber(t) ==
    IF t = <<>> THEN 0
    ELSE 16 * HexNumber(SubSeq(t, 1, Len(t) - 1)) + HexVal(t[Len(t)])

\* C16: the command sent at loop iteration i carries address offset+i; the
\* address counter moves by exactly 1 per iteration and never backwards.
C16_AddressIsOffsetPlusIndex ==
    /\ [][sent' = sent + 1 =>
            /\ HexNumber(AddrPart(command')) = OffsetOf + x
            /\ x = sent]_vars
    /\ [][pc # "open" => addr' \in {addr, addr + 1}]_vars
    /\ [][x' = x + 1 => addr' = OffsetOf + x']_vars

C16_Witness == driver = "clear" /\ sent = 3 /\ command = WriteCommand(2, EraseByte)

\* the branch the if/elif chain of lines 39, 52, 87 and 114 selects
Selected ==
    IF args.read THEN "read"
    ELSE IF args.write THEN "write"
    ELSE IF args.clear THEN "clear"
    ELSE IF args.verify THEN "verify"
    ELSE "none"

\* the positions that belong to each driver
PositionsOf(d) ==
    CASE d = "read" -> {"read_loop", "read_wait"}
      [] d = "write" -> {"write_loop", "write_wait"}
      [] d = "clear" -> {"clear_loop", "clear_wait"}
      [] d = "verify" -> {"verify_loop", "verify_wait"}
      [] OTHER -> {}

\* C17 as stated: in every invocation that gets past the open, whatever the
\* mode flags, exactly one of the four drivers runs.
C17_ExactlyOneDriver ==
    (pc \in Terminal /\ Opened) => driver \in {"read", "write", "clear", "verify"}

\* C17 as amended: at most one driver runs, the first of read, write,
\* clear, verify whose flag is set; every command is sent from a position
\* of that driver; with no flag set no driver runs and nothing is sent.
C17_AtMostOneDriver ==
    /\ [](driver \in {"none", Selected})
    /\ [](Selected = "none" => (driver = "none" /\ sent = 0))
    /\ []((pc \in Terminal /\ Opened /\ Selected # "none") => driver = Selected)
    /\ [][sent' # sent => (pc \in PositionsOf(Selected) /\ driver = Selected)]_vars
    /\ [][driver # "none" => driver' = driver]_vars

C17_Witness ==
    /\ args.read /\ args.write /\ args.clear /\ args.verify
    /\ driver = "read" /\ sent = 2 /\ pc = "done"

\* C18: write reports progress only after a DONE, and after the DONE for
\* buffer index i the line is (i+1) out of the whole file's length, also
\* when a smaller limit was supplied.
C18_WriteProgress ==
    /\ [](driver = "write" =>
            /\ progresses + (IF received > 0 /\ response # DONE THEN 1 ELSE 0)
                 = received
            /\ progresses > 0 => progress = <<progresses, Len(args.file.data)>>)
    /\ [][(driver = "write" /\ progresses' # progresses) =>
            /\ response' = DONE
            /\ progresses' = progresses + 1
            /\ progress' = <<x + 1, Len(args.file.data)>>]_vars

C18_Witness ==
    /\ driver = "write"
    /\ args.limit.val = 2
    /\ Len(args.file.data) = 3
    /\ progress = <<2, 3>>
    /\ pc = "done"

\* C19: read and verify never modify the device: every command they send
\* is a read (RD) command.
C19_ReadOnlyDrivers ==
    (driver \in {"read", "verify"} /\ sent > 0)
    => /\ SubSeq(command, 1, 2) = <<"R", "D">>
       /\ command = ReadCommand(HexNumber(AddrPart(command)))

C19_Witness == driver = "verify" /\ sent = 2 /\ received = 2

\* C20: after the transport has been closed no command is written to it and
\* no response line is read from it; close is the last transport operation.
C20_NothingAfterClose ==
    /\ [](closes > 0 => (~is_open /\ pc \in Terminal /\ closes = 1))
    /\ [][closes > 0 =>
            (sent' = sent /\ received' = received /\ closes' = closes)]_vars

C20_Witness == closes = 1 /\ sent = 2 /\ received = 2 /\ pc = "exit1"

====
